---- MODULE Spec2Model ----
(***************************************************************************)
(* Model of the agent orchestration layer of log-scan:                     *)
(*   - agents/lib/agent.py  Agent (constructor-validated contract)         *)
(*   - agents/agent.py      Agent (resolve-validated contract)             *)
(*   - agents/Context.py    Context.inject and its type matching           *)
(*   - agents/tooled.py     TooledConfig / TooledDeps schemas              *)
(*   - agents/rag.py        RAGExpander capability marker                  *)
(*                                                                         *)
(* Python values are encoded as records of one shape so that any two of    *)
(* them can be compared.  Floats are held in tenths (0.5 is 5, 2.0 is 20). *)
(* Strings that the code inspects by prefix or suffix are held in pieces:  *)
(* a violation kind as its dot-separated segments, a message as its words. *)
(* Titles keep their text without the accents of the source.               *)
(***************************************************************************)
EXTENDS Integers, Sequences, FiniteSets, TLC

(***************************************************************************)
(* Bounds of the explored inputs.                                          *)
(***************************************************************************)
MaxKeys == 2
MaxPool == 2
MaxTools == 2
MaxObjects == 3
MaxErrs == 2
MaxNameLen == 4
MaxFields == 2
MaxEvents == 4

(***************************************************************************)
(* Field values.                                                           *)
(***************************************************************************)
V(t, s, n) == [t |-> t, s |-> s, n |-> n]
NoneV == V("none", "", 0)
IntV(n) == V("int", "", n)
FloatV(tenths) == V("float", "", tenths)
StrV(s) == V("str", s, 0)
ObjV(o) == V("obj", "", o)

(***************************************************************************)
(* The objects a caller can hand in as dependencies, utilities or tools.   *)
(* An object is its index in this table; two entries are two instances.    *)
(*   1 an instance of a RAGExpander subclass (MiRag)                       *)
(*   2 an unrelated object exposing a callable expand                      *)
(*   3 an unrelated object whose expand attribute is not callable          *)
(*   4 a BaseMemory instance                                               *)
(*   5,6 two BaseTool instances named wikipedia; 7 a BaseTool named search *)
(***************************************************************************)
ObjTable ==
  << [cls |-> "MiRag",      expand |-> "callable", name |-> ""],
     [cls |-> "Duck",       expand |-> "callable", name |-> ""],
     [cls |-> "Attr",       expand |-> "data",     name |-> ""],
     [cls |-> "BaseMemory", expand |-> "absent",   name |-> ""],
     [cls |-> "BaseTool",   expand |-> "absent",   name |-> "wikipedia"],
     [cls |-> "BaseTool",   expand |-> "absent",   name |-> "wikipedia"],
     [cls |-> "BaseTool",   expand |-> "absent",   name |-> "search"] >>

Objects == DOMAIN ObjTable
ToolObjects == {o \in Objects : ObjTable[o].cls = "BaseTool"}

\* The classes an instance of cls is an instance of.
Mro(cls) == IF cls = "MiRag" THEN {"MiRag", "RAGExpander"} ELSE {cls}

IsInstance(o, T) == T \in Mro(ObjTable[o].cls)

(***************************************************************************)
(* Type annotations of schema fields: a plain class, or a Union of classes *)
(* and NoneType (Optional[X] is Union[X, None]).                           *)
(***************************************************************************)
Ty(name) == [origin |-> "", args |-> <<>>, name |-> name]
Opt(name) == [origin |-> "Union", args |-> <<name, "NoneType">>, name |-> "Optional"]
Un2(a, b) == [origin |-> "Union", args |-> <<a, b, "NoneType">>, name |-> "Union"]
AnyTy == Ty("Any")

(***************************************************************************)
(* Schemas: the ordered fields of a model class.                           *)
(***************************************************************************)
Field(name, ann, required, default, ranged, ge, le) ==
  [name |-> name, ann |-> ann, required |-> required, default |-> default,
   ranged |-> ranged, ge |-> ge, le |-> le]

TooledConfig ==
  << Field("model", Ty("str"), FALSE, StrV("gpt-4o-mini"), FALSE, 0, 0),
     Field("temperature", Ty("float"), FALSE, FloatV(0), TRUE, 0, 20),
     Field("max_tokens", Ty("int"), FALSE, IntV(256), TRUE, 1, 8192),
     Field("lang", Ty("str"), FALSE, StrV("es"), FALSE, 0, 0),
     Field("system_prompt", Ty("str"), FALSE, StrV("Eres un agente util."), FALSE, 0, 0) >>

TooledDeps ==
  << Field("memory", Opt("BaseMemory"), FALSE, NoneV, FALSE, 0, 0),
     Field("rag", Ty("RAGExpander"), FALSE, NoneV, FALSE, 0, 0) >>

\* Schemas a subclass may declare through the hooks: required fields without
\* a default, tool-typed slots, a union slot and an Any slot.
StrictConfig ==
  << Field("api_key", Ty("str"), TRUE, NoneV, FALSE, 0, 0),
     Field("retries", Ty("int"), TRUE, NoneV, TRUE, 0, 5) >>

ToolDeps ==
  << Field("search", Ty("BaseTool"), TRUE, NoneV, FALSE, 0, 0),
     Field("backup", Opt("BaseTool"), FALSE, NoneV, FALSE, 0, 0),
     Field("rag", Ty("RAGExpander"), TRUE, NoneV, FALSE, 0, 0) >>

MixedDeps ==
  << Field("store", Un2("BaseMemory", "BaseTool"), FALSE, NoneV, FALSE, 0, 0),
     Field("anything", AnyTy, FALSE, NoneV, FALSE, 0, 0),
     Field("rag", Opt("RAGExpander"), FALSE, NoneV, FALSE, 0, 0) >>

NoModel == "None"
ModelNames == {"TooledConfig", "TooledDeps", "StrictConfig", "ToolDeps", "MixedDeps"}

model_fields(m) ==
  CASE m = "TooledConfig" -> TooledConfig
    [] m = "TooledDeps" -> TooledDeps
    [] m = "StrictConfig" -> StrictConfig
    [] m = "ToolDeps" -> ToolDeps
    [] m = "MixedDeps" -> MixedDeps
    [] OTHER -> <<>>

FieldNames(m) == {model_fields(m)[i].name : i \in DOMAIN model_fields(m)}

(***************************************************************************)
(* Payloads: None, a dict, a list, a string, or a model instance.  A model *)
(* instance has an identity (id) given when it is constructed.             *)
(***************************************************************************)
EmptyMap == [k \in {} |-> NoneV]
Payload(kind, m, id, vals, len) ==
  [kind |-> kind, model |-> m, id |-> id, vals |-> vals, len |-> len]
NonePayload == Payload("none", "", 0, EmptyMap, 0)
DictPayload(vals) == Payload("dict", "", 0, vals, Cardinality(DOMAIN vals))
ListPayload(n) == Payload("list", "", 0, EmptyMap, n)
StrPayload == Payload("str", "", 0, EmptyMap, 1)
Inst(m, id, vals) == Payload("inst", m, id, vals, 0)

\* payload in (None, {}, [])
IsBlankOmitsList(p) ==
  \/ p.kind = "none"
  \/ p.kind = "dict" /\ DOMAIN p.vals = {}

IsBlank(p) ==
  \/ p.kind = "none"
  \/ p.kind = "dict" /\ DOMAIN p.vals = {}
  \/ p.kind = "list" /\ p.len = 0

(***************************************************************************)
(* The schema library's validation of one field value (pydantic v2, lax    *)
(* mode), as far as the code depends on it: the violation kind, message,   *)
(* context and location it reports, in the order of the schema's fields.   *)
(***************************************************************************)
RawErr(loc, type, msg, ctx) == [loc |-> loc, type |-> type, msg |-> msg, ctx |-> ctx]

Good(v) == [ok |-> TRUE, value |-> v, type |-> <<>>, msg |-> <<>>, ctx |-> "none"]
Bad(type, msg, ctx) == [ok |-> FALSE, value |-> NoneV, type |-> <<type>>, msg |-> msg, ctx |-> ctx]

\* Text that int() / float() parse.
IsNumericText(s) == s \in {"1"}
ParsedNumber(s) == IF s = "1" THEN 1 ELSE 0

\* The ge / le constraints of a numeric field; scale is 10 for a float.
InRange(f, n, scale) ==
  IF f.ranged /\ n < f.ge * scale
    THEN Bad("greater_than_equal", <<"Input", "should", "be", "greater", "than", "or", "equal">>, "ge")
  ELSE IF f.ranged /\ n > f.le * scale
    THEN Bad("less_than_equal", <<"Input", "should", "be", "less", "than", "or", "equal">>, "le")
  ELSE Good(IF scale = 10 THEN FloatV(n) ELSE IntV(n))

CheckStr(f, v) ==
  IF v.t = "str" THEN Good(v)
  ELSE Bad("string_type", <<"Input", "should", "be", "a", "valid", "string">>, "none")

\* A float, an int, or text that parses, as a number of tenths.
CheckFloat(f, v) ==
  IF v.t \in {"float", "int"} \/ (v.t = "str" /\ IsNumericText(v.s))
    THEN InRange(f, CASE v.t = "float" -> v.n
                      [] v.t = "int" -> v.n * 10
                      [] OTHER -> ParsedNumber(v.s) * 10, 10)
  ELSE Bad(IF v.t = "str" THEN "float_parsing" ELSE "float_type",
           <<"Input", "should", "be", "a", "valid", "number">>, "none")

\* An int, a float without fractional part, or text that parses.
CheckInt(f, v) ==
  IF v.t = "int" \/ (v.t = "float" /\ v.n % 10 = 0) \/ (v.t = "str" /\ IsNumericText(v.s))
    THEN InRange(f, CASE v.t = "int" -> v.n
                      [] v.t = "float" -> v.n \div 10
                      [] OTHER -> ParsedNumber(v.s), 1)
  ELSE Bad(CASE v.t = "float" -> "int_from_float"
             [] v.t = "str" -> "int_parsing"
             [] OTHER -> "int_type",
           <<"Input", "should", "be", "a", "valid", "integer">>, "none")

\* RAGExpander validates by is_instance_schema (rag.py); BaseTool and
\* BaseMemory are model classes, validated as instances of the class.
CheckClass(T, v) ==
  IF v.t = "obj" /\ IsInstance(v.n, T) THEN Good(v)
  ELSE IF T = "RAGExpander"
    THEN Bad("is_instance_of", <<"Input", "should", "be", "an", "instance", "of", T>>, "class")
  ELSE Bad("model_type", <<"Input", "should", "be", "a", "valid", "dictionary", "or", "instance", "of", T>>, "class_name")

CheckMember(T, f, v) ==
  CASE T = "Any" -> Good(v)
    [] T = "str" -> CheckStr(f, v)
    [] T = "float" -> CheckFloat(f, v)
    [] T = "int" -> CheckInt(f, v)
    [] OTHER -> CheckClass(T, v)

NonNoneArgs(ann) == SelectSeq(ann.args, LAMBDA a : a # "NoneType")

\* The classes a value of the annotation may be an instance of.
Members(ann) == IF ann.origin = "Union" THEN NonNoneArgs(ann) ELSE <<ann.name>>

\* The outcome for one supplied value, from the outcome rs[i] of each member:
\* None passes an Optional; the first member that accepts decides the value;
\* otherwise the member's violation, located at the field, or (a union of
\* several classes) one violation per member, located under it.
Combine(f, v, ms, rs) ==
  IF f.ann.origin = "Union" /\ v.t = "none" THEN [ok |-> TRUE, value |-> v, errs |-> <<>>]
  ELSE IF \E i \in DOMAIN rs : rs[i].ok
    THEN [ok |-> TRUE, errs |-> <<>>,
          value |-> rs[CHOOSE i \in DOMAIN rs : rs[i].ok /\ \A j \in 1..(i - 1) : ~rs[j].ok].value]
  ELSE [ok |-> FALSE, value |-> NoneV,
        errs |-> [i \in DOMAIN rs |->
                    RawErr(IF Len(ms) = 1 THEN <<f.name>> ELSE <<f.name, ms[i]>>,
                           rs[i].type, rs[i].msg, rs[i].ctx)]]

CheckValue(f, v) ==
  Combine(f, v, Members(f.ann), [i \in DOMAIN Members(f.ann) |-> CheckMember(Members(f.ann)[i], f, v)])

\* One field of model(**vals): the supplied value validated, else the default
\* (not validated), else the "missing" violation.
FieldOutcome(f, vals) ==
  IF f.name \in DOMAIN vals THEN CheckValue(f, vals[f.name])
  ELSE IF ~f.required THEN [ok |-> TRUE, value |-> f.default, errs |-> <<>>]
  ELSE [ok |-> FALSE, value |-> NoneV,
        errs |-> <<RawErr(<<f.name>>, <<"missing">>, <<"Field", "required">>, "none")>>]

RECURSIVE CollectErrs(_, _)
CollectErrs(outs, i) ==
  IF i > Len(outs) THEN <<>> ELSE outs[i].errs \o CollectErrs(outs, i + 1)

FieldIndex(m, n) == CHOOSE i \in DOMAIN model_fields(m) : model_fields(m)[i].name = n
FieldByName(m, n) == model_fields(m)[FieldIndex(m, n)]

\* The instance, or the ValidationError, from the outcomes of the fields.
Build(m, id, outs, errs) ==
  IF errs = <<>>
    THEN [ok |-> TRUE, errs |-> <<>>,
          inst |-> Inst(m, id, [n \in FieldNames(m) |-> outs[FieldIndex(m, n)].value])]
  ELSE [ok |-> FALSE, errs |-> errs, inst |-> NonePayload]

BuildOf(m, id, outs) == Build(m, id, outs, CollectErrs(outs, 1))

\* model(**vals): a new instance with identity id, or the ValidationError's
\* list of violations in field order.  Keys that name no field are ignored.
ModelNew(m, vals, id) ==
  BuildOf(m, id, [i \in DOMAIN model_fields(m) |-> FieldOutcome(model_fields(m)[i], vals)])

\* inst.model_dump()
model_dump(inst) == DictPayload(inst.vals)

(***************************************************************************)
(* Agent._normalize_pydantic_errors                                        *)
(***************************************************************************)
\* str.lower() of a word of a message.
Lower(w) ==
  CASE w = "Field" -> "field"
    [] w = "FIELD" -> "field"
    [] w = "Required" -> "required"
    [] w = "Input" -> "input"
    [] OTHER -> w

\* "/" + "/".join(map(str, loc)) if loc else "/"
RECURSIVE JoinSlash(_)
JoinSlash(loc) ==
  IF Len(loc) = 0 THEN ""
  ELSE IF Len(loc) = 1 THEN loc[1]
  ELSE loc[1] \o "/" \o JoinSlash(Tail(loc))

Pointer(loc) == IF Len(loc) > 0 THEN "/" \o JoinSlash(loc) ELSE "/"

\* etype.endswith(".missing") or etype == "missing"
\*   or msg.lower().startswith("field required")
IsMissingDropsMessage(e) ==
  \/ Len(e.type) >= 2 /\ e.type[Len(e.type)] = "missing"
  \/ e.type = <<"missing">>

IsMissing(e) ==
  \/ Len(e.type) >= 2 /\ e.type[Len(e.type)] = "missing"
  \/ e.type = <<"missing">>
  \/ Len(e.msg) >= 2 /\ Lower(e.msg[1]) = "field" /\ Lower(e.msg[2]) = "required"

NormalizeOne(where, e) ==
  [code |-> IF IsMissing(e) THEN where \o ".missing" ELSE where \o ".validation",
   title |-> IF IsMissing(e) THEN "Campo requerido ausente" ELSE "Error de validacion",
   detail |-> e.msg,
   source |-> [pointer |-> Pointer(e.loc)],
   meta |-> [type |-> e.type, ctx |-> e.ctx]]

_normalize_pydantic_errors(where, errs) ==
  [i \in DOMAIN errs |-> NormalizeOne(where, errs[i])]

(***************************************************************************)
(* Outcomes of a call: what it returned, or the exception it raised.       *)
(*   exc   "none", "ValueError" (the structured failure: args[0] is the    *)
(*         dict {ok: False, errors}), "TypeError", "ValidationError" (the  *)
(*         schema library's own, un-normalized; raw holds its violations)  *)
(***************************************************************************)
Returned(value, made) ==
  [exc |-> "none", value |-> value, errors |-> <<>>, raw |-> <<>>, made |-> made]
RaisedValueError(errors) ==
  [exc |-> "ValueError", value |-> NonePayload, errors |-> errors, raw |-> <<>>, made |-> 0]
\* ve.args[0] if (ve.args and isinstance(ve.args[0], dict)) else {}, then
\* data.get("errors", [the <where>.error item]): every ValueError raised by
\* _validate_with_model carries the dict, whose "errors" are r.errors.
ErrorsOf(r, where) ==
  IF r.exc = "ValueError" THEN r.errors
  ELSE <<[code |-> where \o ".error", title |-> "Error de " \o where]>>
RaisedTypeError ==
  [exc |-> "TypeError", value |-> NonePayload, errors |-> <<>>, raw |-> <<>>, made |-> 0]
RaisedValidationError(raw) ==
  [exc |-> "ValidationError", value |-> NonePayload, errors |-> <<>>, raw |-> raw, made |-> 0]

NotSupportedItem(who, where) ==
  [code |-> where \o ".not_supported",
   title |-> where \o " no admitido",
   detail |-> <<who, "no", "acepta", where>>,
   source |-> [pointer |-> "/" \o where]]

\* A classmethod's cls.__class__.__name__ is the metaclass of the ABC.
ClsClassName == "ABCMeta"

\* try: return model(...)
\* except ValidationError as ve: raise ValueError({"ok": False, "errors": ...})
Rewrapped(where, r) ==
  IF r.ok THEN Returned(r.inst, 1)
  ELSE RaisedValueError(_normalize_pydantic_errors(where, r.errs))

(***************************************************************************)
(* Agent._validate_with_model (lib/agent.py); id is the identity a newly   *)
(* constructed instance gets.  model() is model applied to no keywords.    *)
(***************************************************************************)
ValidateRebuildsInstance(model, payload, where, id) ==
  IF model = NoModel
    THEN IF ~IsBlank(payload)
           THEN RaisedValueError(<<NotSupportedItem(ClsClassName, where)>>)
         ELSE Returned(NonePayload, 0)
  ELSE IF payload.kind \in {"none", "dict", "inst"}
    THEN Rewrapped(where, ModelNew(model, payload.vals, id))
  ELSE RaisedTypeError

ValidateWrapsTypeMismatch(model, payload, where, id) ==
  IF model = NoModel
    THEN IF ~IsBlank(payload)
           THEN RaisedValueError(<<NotSupportedItem(ClsClassName, where)>>)
         ELSE Returned(NonePayload, 0)
  ELSE IF payload.kind = "inst" /\ payload.model = model THEN Returned(payload, 0)
  ELSE IF payload.kind \in {"none", "dict"}
    THEN Rewrapped(where, ModelNew(model, payload.vals, id))
  ELSE RaisedValueError(<<[code |-> where \o ".error", title |-> "Error de " \o where]>>)

_validate_with_model(model, payload, where, id) ==
  IF model = NoModel
    THEN IF ~IsBlank(payload)
           THEN RaisedValueError(<<NotSupportedItem(ClsClassName, where)>>)
         ELSE Returned(NonePayload, 0)
  ELSE IF payload.kind = "inst" /\ payload.model = model THEN Returned(payload, 0)
  ELSE IF payload.kind \in {"none", "dict"}
    THEN Rewrapped(where, ModelNew(model, IF payload.kind = "none" THEN EmptyMap ELSE payload.vals, id))
  ELSE RaisedTypeError

(***************************************************************************)
(* Agent._lookup_with_model (lib/agent.py): the report it returns, or the  *)
(* exception that leaves it.  Only ValueError is caught.  made counts the  *)
(* instances the call constructed.                                         *)
(***************************************************************************)
Report(ok, value, errors, made) ==
  [exc |-> "none", ok |-> ok, value |-> value, errors |-> errors, schema |-> "None",
   made |-> made]
Propagated(exc) ==
  [exc |-> exc, ok |-> FALSE, value |-> NonePayload, errors |-> <<>>, schema |-> "None",
   made |-> 0]

ReportDropsErrors(where, r) ==
  CASE r.exc = "none" ->
         Report(TRUE, IF r.value.kind # "none" THEN model_dump(r.value) ELSE NonePayload,
                <<>>, r.made)
    [] r.exc = "ValueError" ->
         Report(FALSE, NonePayload,
                <<[code |-> where \o ".error", title |-> "Error de " \o where]>>, r.made)
    [] OTHER -> Propagated(r.exc)

\* try: inst = cls._validate_with_model(...); return {"ok": True, ...}
\* except ValueError as ve: return {"ok": False, ...}
ReportOf(where, r) ==
  CASE r.exc = "none" ->
         Report(TRUE, IF r.value.kind # "none" THEN model_dump(r.value) ELSE NonePayload,
                <<>>, r.made)
    [] r.exc = "ValueError" -> Report(FALSE, NonePayload, ErrorsOf(r, where), r.made)
    [] OTHER -> Propagated(r.exc)

_lookup_with_model(model, payload, where, id) ==
  IF model = NoModel
    THEN IF ~IsBlank(payload)
           THEN Report(FALSE, NonePayload, <<NotSupportedItem(ClsClassName, where)>>, 0)
         ELSE Report(TRUE, NonePayload, <<>>, 0)
  ELSE ReportOf(where, _validate_with_model(model, payload, where, id))

(***************************************************************************)
(* Agent._extract_tools_from_deps and Agent._merge_tools (lib/agent.py).   *)
(* Tools are object indices; a dict is its ordered list of (key, value).   *)
(***************************************************************************)
RECURSIVE ExtractFrom(_, _, _)
ExtractFrom(fields, vals, i) ==
  IF i > Len(fields) THEN <<>>
  ELSE LET val == vals[fields[i].name]
       IN  (IF val.t = "obj" /\ IsInstance(val.n, "BaseTool") THEN <<val.n>> ELSE <<>>)
             \o ExtractFrom(fields, vals, i + 1)

_extract_tools_from_deps(deps_bm) ==
  IF deps_bm.kind = "inst" THEN ExtractFrom(model_fields(deps_bm.model), deps_bm.vals, 1)
  ELSE <<>>

HasKey(by, k) == \E i \in DOMAIN by : by[i].key = k

\* by[k] = v: an existing key keeps its place and takes the new value.
DictSet(by, k, v) ==
  IF HasKey(by, k)
    THEN [i \in DOMAIN by |-> IF by[i].key = k THEN [key |-> k, val |-> v] ELSE by[i]]
  ELSE Append(by, [key |-> k, val |-> v])

\* {t.name: t for t in prefer_left}
RECURSIVE DictOf(_, _)
DictOf(left, by) ==
  IF left = <<>> THEN by
  ELSE DictOf(Tail(left), DictSet(by, ObjTable[Head(left)].name, Head(left)))

\* for t in right: if t.name not in by: by[t.name] = t
RECURSIVE FillFrom(_, _)
FillFrom(right, by) ==
  IF right = <<>> THEN by
  ELSE FillFrom(Tail(right),
                IF HasKey(by, ObjTable[Head(right)].name) THEN by
                ELSE DictSet(by, ObjTable[Head(right)].name, Head(right)))

DictValues(by) == [i \in DOMAIN by |-> by[i].val]

MergeRightWins(prefer_left, right) == DictValues(DictOf(prefer_left \o right, <<>>))

_merge_tools(prefer_left, right) == DictValues(FillFrom(right, DictOf(prefer_left, <<>>)))

\* [t for t in (tools or []) if isinstance(t, BaseTool)]
ext_tools(tools) == SelectSeq(tools, LAMBDA t : IsInstance(t, "BaseTool"))

(***************************************************************************)
(* Context.inject and its helpers (Context.py).                            *)
(***************************************************************************)
\* Optional[T] / Union[T, None] gives T; anything else is returned as is.
_unwrap_optional(t) ==
  IF t.origin = "Union" /\ Len(NonNoneArgs(t)) = 1 THEN Ty(NonNoneArgs(t)[1]) ELSE t

\* isinstance(instance, T), T a class or a Union of classes
IsInstanceOfType(o, T) ==
  IF T.origin = "Union" THEN \E i \in DOMAIN T.args : IsInstance(o, T.args[i])
  ELSE IsInstance(o, T.name)

_matches_type(o, expected_type) ==
  IF expected_type = AnyTy THEN TRUE
  ELSE LET T == _unwrap_optional(expected_type)
       IN  IF IsInstanceOfType(o, T) THEN TRUE
           ELSE IF T.name = "RAGExpander" THEN ObjTable[o].expand = "callable"
           ELSE FALSE

\* The pool positions the loop of one slot looks at: up to and including the
\* first match.
FirstMatch(pool, expected) ==
  LET hits == {i \in DOMAIN pool : _matches_type(pool[i], expected)}
  IN  IF hits = {} THEN 0 ELSE CHOOSE i \in hits : \A j \in hits : i <= j

LastMatch(pool, expected) ==
  LET hits == {i \in DOMAIN pool : _matches_type(pool[i], expected)}
  IN  IF hits = {} THEN 0 ELSE CHOOSE i \in hits : \A j \in hits : i >= j

Provided(pool, expected) == FirstMatch(pool, expected)

RECURSIVE ScanOf(_, _, _)
ScanOf(fields, pool, i) ==
  IF i > Len(fields) THEN <<>>
  ELSE LET k == Provided(pool, fields[i].ann)
           seen == IF k = 0 THEN Len(pool) ELSE k
       IN  [j \in 1..seen |-> [slot |-> fields[i].name, obj |-> pool[j]]]
             \o ScanOf(fields, pool, i + 1)

\* values: the slots that found an entry.
InjectValues(deps_model, pool) ==
  LET fs == model_fields(deps_model)
      found == {i \in DOMAIN fs : Provided(pool, fs[i].ann) # 0}
  IN  [n \in {fs[i].name : i \in found} |->
         ObjV(pool[Provided(pool, FieldByName(deps_model, n).ann)])]

\* try: return deps_model(**values)
\* except ValidationError as e: raise
Reraised(r) == IF r.ok THEN Returned(r.inst, 1) ELSE RaisedValidationError(r.errs)

inject(deps_model, pool, id) ==
  IF deps_model = NoModel THEN Returned(NonePayload, 0)
  ELSE Reraised(ModelNew(deps_model, InjectValues(deps_model, pool), id))

InjectScan(deps_model, pool) ==
  IF deps_model = NoModel THEN <<>> ELSE ScanOf(model_fields(deps_model), pool, 1)

(***************************************************************************)
(* Agent classes: the schemas each declares through config_model() and     *)
(* deps_model().  The base class declares none.                            *)
(***************************************************************************)
AgentClass(name, config, deps) == [name |-> name, config |-> config, deps |-> deps]
NoClass == AgentClass("", NoModel, NoModel)
AgentClasses ==
  { AgentClass("Agent", NoModel, NoModel),
    AgentClass("TooledAgent", "TooledConfig", "TooledDeps"),
    AgentClass("StrictAgent", "StrictConfig", "ToolDeps"),
    AgentClass("MixedAgent", NoModel, "MixedDeps") }

ModelOf(cls, where) == IF where = "config" THEN cls.config ELSE cls.deps

(***************************************************************************)
(* Agent.__init__ (lib/agent.py): the instance it leaves, or the exception *)
(* of the first validation that fails.  c and d are the outcomes of the    *)
(* two validations.                                                        *)
(***************************************************************************)
NoAgent ==
  [exists |-> FALSE, cls |-> NoClass, cfg |-> NonePayload, deps |-> NonePayload, tools |-> <<>>]

Bound(cls, tools, c, d) ==
  [out |-> Returned(NonePayload, c.made + d.made),
   agent |-> [exists |-> TRUE, cls |-> cls, cfg |-> c.value, deps |-> d.value,
              tools |-> _merge_tools(_extract_tools_from_deps(d.value), ext_tools(tools))]]

InitAfterDeps(cls, tools, c, d) ==
  IF d.exc # "none" THEN [out |-> [d EXCEPT !.made = c.made], agent |-> NoAgent]
  ELSE Bound(cls, tools, c, d)

InitAfterConfig(cls, deps, tools, id, c) ==
  IF c.exc # "none" THEN [out |-> c, agent |-> NoAgent]
  ELSE InitAfterDeps(cls, tools, c, _validate_with_model(cls.deps, deps, "deps", id + c.made))

AgentInit(cls, cfg, deps, tools, id) ==
  InitAfterConfig(cls, deps, tools, id, _validate_with_model(cls.config, cfg, "config", id))

(***************************************************************************)
(* _execute: the call a resolve makes.  passed lists the parameters bound  *)
(* by the call; the body runs only if every declared parameter is bound,   *)
(* otherwise Python raises TypeError at the call.                          *)
(***************************************************************************)
Call(passed, cfg, deps, tools, declared) ==
  [passed |-> passed, cfg |-> cfg, deps |-> deps, tools |-> tools,
   ran |-> \A i \in DOMAIN declared : \E j \in DOMAIN passed : passed[j] = declared[i]]

\* Agent._execute(self, instruction, cfg, deps, tools) of lib/agent.py
ExecuteParams == <<"instruction", "cfg", "deps", "tools">>
\* Agent._execute(self, instruction, cfg, deps) of agent.py
LegacyExecuteParams == <<"instruction", "cfg", "deps">>

TextResult == StrPayload

Executed(call, made) ==
  [calls |-> <<call>>,
   out |-> IF call.ran THEN Returned(TextResult, made)
           ELSE [RaisedTypeError EXCEPT !.made = made]]

\* Agent.resolve of lib/agent.py: return self._execute(instruction)
resolve(self) ==
  Executed(Call(<<"instruction">>, NonePayload, NonePayload, <<>>, ExecuteParams), 0)

(***************************************************************************)
(* agent.py: _validate_with_model (an instance method: the detail names the *)
(* agent's class) and resolve.                                             *)
(***************************************************************************)
Legacy_validate_with_model(cls, model, payload, where, id) ==
  IF model = NoModel
    THEN IF ~IsBlank(payload)
           THEN RaisedValueError(<<NotSupportedItem(cls.name, where)>>)
         ELSE Returned(NonePayload, 0)
  ELSE IF payload.kind = "inst" /\ payload.model = model THEN Returned(payload, 0)
  ELSE IF payload.kind \in {"none", "dict"}
    THEN Rewrapped(where, ModelNew(model, IF payload.kind = "none" THEN EmptyMap ELSE payload.vals, id))
  ELSE RaisedTypeError

ResolveExecutesAnyway(c, d) ==
  Executed(Call(<<"instruction", "cfg", "deps">>, c.value, d.value, <<>>, LegacyExecuteParams),
           c.made + d.made)

ResolveAfterDeps(c, d) ==
  IF d.exc # "none" THEN [calls |-> <<>>, out |-> [d EXCEPT !.made = c.made]]
  ELSE Executed(Call(<<"instruction", "cfg", "deps">>, c.value, d.value, <<>>, LegacyExecuteParams),
                c.made + d.made)

ResolveAfterConfig(cls, deps, id, c) ==
  IF c.exc # "none" THEN [calls |-> <<>>, out |-> c]
  ELSE ResolveAfterDeps(c, Legacy_validate_with_model(cls, cls.deps, deps, "deps", id + c.made))

legacy_resolve(cls, cfg, deps, id) ==
  ResolveAfterConfig(cls, deps, id, Legacy_validate_with_model(cls, cls.config, cfg, "config", id))

(***************************************************************************)
(* Inputs.                                                                 *)
(***************************************************************************)
RECURSIVE SeqsUpTo(_, _)
SeqsUpTo(S, n) ==
  IF n = 0 THEN {<<>>}
  ELSE LET shorter == SeqsUpTo(S, n - 1)
       IN  shorter \cup {Append(q, x) : q \in {r \in shorter : Len(r) = n - 1}, x \in S}

MapsOver(keys, values, n) ==
  UNION {[K -> values] : K \in {S \in SUBSET keys : Cardinality(S) <= n}}

ConfigValues == {IntV(1), FloatV(5), FloatV(50), StrV("abc"), StrV("1")}
DepsValues == {ObjV(o) : o \in Objects} \cup {NoneV}

KeysFor(model, where) ==
  IF model = NoModel THEN (IF where = "config" THEN {"temperature"} ELSE {"rag"})
  ELSE FieldNames(model) \cup {"extra"}

\* What a caller may pass to lookup_config / lookup_deps / validate.
PayloadsFor(model, where) ==
  {NonePayload, ListPayload(0), ListPayload(1), StrPayload}
    \cup {DictPayload(m) :
            m \in MapsOver(KeysFor(model, where),
                           IF where = "config" THEN ConfigValues ELSE DepsValues, MaxKeys)}

D1(k, v) == DictPayload([n \in {k} |-> v])
D2(k1, v1, k2, v2) == DictPayload([n \in {k1, k2} |-> IF n = k1 THEN v1 ELSE v2])
D3(k1, v1, k2, v2, k3, v3) ==
  DictPayload([n \in {k1, k2, k3} |-> IF n = k1 THEN v1 ELSE IF n = k2 THEN v2 ELSE v3])

\* What a caller may pass to the constructor or to resolve, per schema.
CtorPayloads(model) ==
  CASE model = "TooledConfig" ->
         {NonePayload, DictPayload(EmptyMap), StrPayload,
          D1("temperature", IntV(1)), D1("temperature", FloatV(50))}
    [] model = "StrictConfig" ->
         {NonePayload, StrPayload, D1("api_key", StrV("abc")),
          D2("api_key", StrV("abc"), "retries", IntV(1))}
    [] model = "TooledDeps" ->
         {NonePayload, D1("rag", ObjV(1)), D1("rag", ObjV(2)),
          D2("memory", ObjV(4), "rag", ObjV(1))}
    [] model = "ToolDeps" ->
         {NonePayload, D1("search", ObjV(5))}
           \cup {D2("search", ObjV(t), "rag", ObjV(1)) : t \in ToolObjects}
           \cup {D3("search", ObjV(t), "backup", ObjV(u), "rag", ObjV(1)) :
                   t \in ToolObjects, u \in ToolObjects}
    [] model = "MixedDeps" ->
         {NonePayload, D1("store", ObjV(5)), D2("store", ObjV(4), "anything", ObjV(6)),
          D2("store", ObjV(7), "anything", ObjV(5))}
    [] OTHER ->
         {NonePayload, DictPayload(EmptyMap), D1("temperature", IntV(1))}

ToolLists == SeqsUpTo(ToolObjects \cup {1}, MaxTools)
Pools == SeqsUpTo(Objects, MaxPool)

\* Violations as the schema library may report them to the normalizer.
RawKinds ==
  { [type |-> <<"missing">>, msg |-> <<"Field", "required">>, ctx |-> "none"],
    [type |-> <<"value_error", "missing">>, msg |-> <<"value", "absent">>, ctx |-> "none"],
    [type |-> <<"value_error">>, msg |-> <<"FIELD", "Required", "here">>, ctx |-> "error"],
    [type |-> <<"missing", "extra">>, msg |-> <<"Required", "field">>, ctx |-> "none"],
    [type |-> <<"float_parsing">>, msg |-> <<"Input", "should", "be", "a", "valid", "number">>, ctx |-> "none"],
    [type |-> <<>>, msg |-> <<>>, ctx |-> "none"] }

RawErrors ==
  {RawErr(loc, k.type, k.msg, k.ctx) : loc \in {<<>>, <<"temperature">>}, k \in RawKinds}

(***************************************************************************)
(* simple.py: the cost tracer.                                             *)
(*                                                                         *)
(* A model name is held as the sequence of its pieces.  No piece is a      *)
(* prefix of another, so one name starts with another exactly when its     *)
(* sequence of pieces does.  Prices are held in cents per 1000 tokens and  *)
(* costs in units of 0.00001 USD: (p / 1000) * 0.15 USD is p * 15 units.   *)
(* round(cost, 8) changes no multiple of 0.00001.                          *)
(***************************************************************************)
Pieces == {"gpt-4", "o", "4", ".1", "-mini", "-2024"}
Names == SeqsUpTo(Pieces, MaxNameLen)

\* PRICING_PER_1K, in the order of the dict literal
PRICING_PER_1K ==
  << [key |-> <<"gpt-4", "o", "-mini">>,  input |-> 15,  output |-> 60],
     [key |-> <<"gpt-4", "o">>,           input |-> 500, output |-> 1500],
     [key |-> <<"gpt-4", ".1", "-mini">>, input |-> 30,  output |-> 120],
     [key |-> <<"gpt-4", ".1">>,          input |-> 500, output |-> 1500],
     [key |-> <<"o", "4", "-mini">>,      input |-> 30,  output |-> 120],
     [key |-> <<"o", "4">>,               input |-> 500, output |-> 1500] >>

\* model_name.startswith(key)
StartsWith(model_name, key) ==
  /\ Len(key) <= Len(model_name)
  /\ SubSeq(model_name, 1, Len(key)) = key

Price(input, output) == [input |-> input, output |-> output]
PriceOf(entry) == Price(entry.input, entry.output)

\* The positions of the table whose key the test accepts, and the first of
\* them in the table's order (0 if none).
FirstOf(hits) == IF hits = {} THEN 0 ELSE CHOOSE i \in hits : \A j \in hits : i <= j
LastOf(hits) == IF hits = {} THEN 0 ELSE CHOOSE i \in hits : \A j \in hits : i >= j
ExactKey(model_name) ==
  FirstOf({i \in DOMAIN PRICING_PER_1K : PRICING_PER_1K[i].key = model_name})
PrefixKey(model_name) ==
  FirstOf({i \in DOMAIN PRICING_PER_1K : StartsWith(model_name, PRICING_PER_1K[i].key)})
PrefixKeyFromTheEnd(model_name) ==
  LastOf({i \in DOMAIN PRICING_PER_1K : StartsWith(model_name, PRICING_PER_1K[i].key)})

PricedAt(exact, prefix) ==
  IF exact # 0 THEN PriceOf(PRICING_PER_1K[exact])
  ELSE IF prefix # 0 THEN PriceOf(PRICING_PER_1K[prefix])
  ELSE Price(0, 0)

MatchPricingFromTheEnd(model_name) ==
  PricedAt(ExactKey(model_name), PrefixKeyFromTheEnd(model_name))

match_pricing(model_name) == PricedAt(ExactKey(model_name), PrefixKey(model_name))

CostAt(price, prompt_toks, completion_toks) ==
  prompt_toks * price.input + completion_toks * price.output

estimate_cost_usd(model, prompt_toks, completion_toks) ==
  CostAt(match_pricing(model), prompt_toks, completion_toks)

TokenCounts == {0, 5, 10}
NoQuote == [model |-> <<>>, prompt_toks |-> 0, completion_toks |-> 0,
            price |-> Price(0, 0), cost |-> 0, asked |-> FALSE]

(***************************************************************************)
(* What an LLMResult-like response may hold.  A text is held as its        *)
(* successive blocks of 200 characters.                                    *)
(*   name    None, a string (its pieces), or a value that is no string     *)
(*   usage   key absent, None, {}, a dict of counts (t = 0: no             *)
(*           total_tokens of its own), or a value that is no dict          *)
(***************************************************************************)
NoName == [kind |-> "none", name |-> <<>>]
Str(name) == [kind |-> "str", name |-> name]
NotAString == [kind |-> "num", name |-> <<>>]
TruthyName(n) == n.kind = "num" \/ (n.kind = "str" /\ n.name # <<>>)

Usage(kind, p, c, t) == [kind |-> kind, p |-> p, c |-> c, t |-> t]
AbsentUsage == Usage("absent", 0, 0, 0)
NullUsage == Usage("null", 0, 0, 0)
EmptyUsage == Usage("empty", 0, 0, 0)
NotADict == Usage("bad", 0, 0, 0)
Counts(p, c, t) == Usage("counts", p, c, t)
TruthyUsage(u) == u.kind \in {"counts", "bad"}

NoText == <<>>
NoPreview == [none |-> TRUE, text |-> <<>>]
\* str(text)[:200] + "..."
Preview(text) ==
  [none |-> FALSE, text |-> (IF text = <<>> THEN <<>> ELSE <<Head(text)>>) \o <<"...">>]

\* a or b
OrName(a, b) == IF TruthyName(a) THEN a ELSE b
OrUsage(a, b) == IF TruthyUsage(a) THEN a ELSE b
OrId(a, b) == IF a # "" THEN a ELSE b

\* The response every field of which is there and empty:
\* llm_output = {}, generations = [[gen]], gen.message.content = "",
\* gen.message.response_metadata = {}, gen.generation_info = {}.
PlainResponse ==
  [lo |-> "dict", lo_token_usage |-> AbsentUsage, lo_usage |-> AbsentUsage,
   lo_model |-> NoName, lo_model_name |-> NoName, raw_usage |-> AbsentUsage,
   gens |-> "gen", message |-> "msg", content |-> NoText,
   rm_model |-> NoName, rm_model_name |-> NoName, rm_id |-> "", rm_request_id |-> "",
   rm_token_usage |-> AbsentUsage, rm_usage |-> AbsentUsage,
   gi_token_usage |-> AbsentUsage, gi_usage |-> AbsentUsage]

\* llm_output = getattr(response, "llm_output", {}) or {}; llm_output.get(key)
LoUsage(response, key) == IF response.lo = "dict" THEN response[key] ELSE AbsentUsage
LoName(response, key) == IF response.lo = "dict" THEN response[key] ELSE NoName
\* gen0 = gens[0][0] if gens and len(gens) > 0 and len(gens[0]) > 0 else None
HasGen0(response) == response.gens = "gen"
\* msg = getattr(gen0, "message", None) if gen0 else None
HasMsg(response) == HasGen0(response) /\ response.message = "msg"

(***************************************************************************)
(* _end_common, lines 169-246: the locals of the try block, step by step.  *)
(* failed: an exception left the try block at this step or before; what    *)
(* was assigned until then stays.                                          *)
(***************************************************************************)
AddKey(raw_meta, key) ==
  IF \E i \in DOMAIN raw_meta : raw_meta[i] = key THEN raw_meta ELSE Append(raw_meta, key)

Locals ==
  [model |-> NoName, request_id |-> "", prompt_toks |-> 0, comp_toks |-> 0,
   total_toks |-> 0, output_preview |-> NoPreview, raw_meta |-> <<>>,
   usage |-> EmptyUsage, failed |-> FALSE]

\* lines 177-180
FromLlmOutput(response, x) ==
  IF response.lo = "bad"
    THEN [x EXCEPT !.raw_meta = AddKey(x.raw_meta, "llm_output"), !.failed = TRUE]
  ELSE [x EXCEPT !.raw_meta = AddKey(x.raw_meta, "llm_output"),
                 !.usage = OrUsage(LoUsage(response, "lo_token_usage"),
                                   OrUsage(LoUsage(response, "lo_usage"), EmptyUsage))]

\* lines 183-195
FromMessage(response, x) ==
  IF x.failed \/ ~HasMsg(response) THEN x
  ELSE [x EXCEPT
          !.output_preview = Preview(response.content),
          !.raw_meta = AddKey(x.raw_meta, "response_message_metadata"),
          !.model = OrName(LoName(response, "lo_model"),
                      OrName(LoName(response, "lo_model_name"),
                        OrName(response.rm_model, response.rm_model_name))),
          !.request_id = OrId(response.rm_id, response.rm_request_id),
          !.usage = OrUsage(x.usage,
                      OrUsage(response.rm_token_usage,
                        OrUsage(response.rm_usage, EmptyUsage)))]

\* lines 198-201
FromGenerationInfo(response, x) ==
  IF x.failed \/ ~HasGen0(response) THEN x
  ELSE [x EXCEPT
          !.raw_meta = AddKey(x.raw_meta, "generation_info"),
          !.usage = OrUsage(x.usage, OrUsage(response.gi_token_usage, response.gi_usage))]

\* lines 204-207
FromOpenAiRaw(response, x) ==
  IF x.failed \/ TruthyUsage(x.usage) THEN x
  ELSE [x EXCEPT
          !.raw_meta = AddKey(x.raw_meta, "openai_api_response"),
          !.usage = OrUsage(LoUsage(response, "raw_usage"), EmptyUsage)]

\* int(usage.get("total_tokens") or (prompt_toks + comp_toks))
TotalOf(u) == IF u.t # 0 THEN u.t ELSE u.p + u.c

\* lines 210-212
ParseUsage(x) ==
  IF x.failed THEN x
  ELSE IF x.usage.kind = "bad" THEN [x EXCEPT !.failed = TRUE]
  ELSE [x EXCEPT !.prompt_toks = x.usage.p, !.comp_toks = x.usage.c,
                 !.total_toks = TotalOf(x.usage)]

\* " ".join(texts)
RECURSIVE Join(_)
Join(texts) == IF texts = <<>> THEN <<>> ELSE Head(texts) \o Join(Tail(texts))

\* _count_tokens(model, text), given that the call goes through: 0 without
\* text or without tiktoken, else the length of the encoding (here: one
\* token per block).
Counted(tik, text) == IF text = <<>> \/ ~tik THEN 0 ELSE Len(text)

\* _encoding_for_model(model) runs model.split and model.startswith before
\* any try of its own: a model that is no string raises there.
CountRaises(tik, model, text) == tik /\ text # <<>> /\ model.kind = "num"

Estimated(x, tik, input_text, output_text) ==
  IF CountRaises(tik, x.model, input_text) \/ CountRaises(tik, x.model, output_text)
    THEN [x EXCEPT !.failed = TRUE]
  ELSE [x EXCEPT !.prompt_toks = Counted(tik, input_text),
                 !.comp_toks = Counted(tik, output_text),
                 !.total_toks = Counted(tik, input_text) + Counted(tik, output_text)]

\* lines 215-222
Fallback(response, call, tik, x) ==
  IF x.failed \/ x.prompt_toks + x.comp_toks # 0 THEN x
  ELSE Estimated(x, tik, Join(call.prompts),
                 IF HasMsg(response) THEN response.content ELSE NoText)

\* line 224
ModelName(response, x) ==
  IF x.failed THEN x ELSE [x EXCEPT !.model = LoName(response, "lo_model_name")]

\* lines 240-244: tu = rm["token_usage"]; tu.get(...)
Reparsed(x, tu) ==
  IF tu.kind \in {"null", "bad"} THEN [x EXCEPT !.failed = TRUE]
  ELSE [x EXCEPT !.prompt_toks = tu.p, !.comp_toks = tu.c, !.total_toks = TotalOf(tu)]

\* if not usage and "token_usage" in rm
ReparsedOrKept(response, x) ==
  IF ~TruthyUsage(x.usage) /\ response.rm_token_usage.kind # "absent"
    THEN Reparsed(x, response.rm_token_usage)
  ELSE x

\* lines 227-244
FromMessageAgain(response, x) ==
  IF x.failed \/ ~HasMsg(response) THEN x
  ELSE ReparsedOrKept(response,
         [x EXCEPT !.output_preview = Preview(response.content),
                   !.raw_meta = AddKey(x.raw_meta, "response_message_metadata"),
                   !.model = OrName(x.model, response.rm_model_name),
                   !.request_id = OrId(response.rm_id, response.rm_request_id)])

\* lines 175-246
Extracted(response, call, tik) ==
  FromMessageAgain(response,
    ModelName(response,
      Fallback(response, call, tik,
        ParseUsage(
          FromOpenAiRaw(response,
            FromGenerationInfo(response,
              FromMessage(response,
                FromLlmOutput(response, Locals))))))))

(***************************************************************************)
(* CostTracingHandler: the records and the callbacks.  calls is the        *)
(* handler's in-flight map (the variable inflight), t0 / t1 the clock      *)
(* value the callback reads.                                               *)
(***************************************************************************)
RunIds == {"r1", "r2"}
NoParent == ""

\* on_chat_model_start, lines 116-120: one text per conversation, empty
\* texts dropped
RECURSIVE PromptsOf(_)
PromptsOf(messages) ==
  IF messages = <<>> THEN <<>>
  ELSE (IF Join(Head(messages)) # <<>> THEN <<Join(Head(messages))>> ELSE <<>>)
         \o PromptsOf(Tail(messages))

\* (prompts[0][:200] + "...") if prompts else ""
PromptPreview(prompts) ==
  IF prompts = <<>> THEN [none |-> FALSE, text |-> <<>>] ELSE Preview(prompts[1])

\* lines 127-142
_start_common(kind, prompts, run_id, parent_run_id, t0) ==
  [kind |-> kind, run_id |-> run_id, parent_run_id |-> parent_run_id,
   start_time |-> t0, model |-> NoName, prompts |-> prompts,
   prompt_preview |-> PromptPreview(prompts), output_preview |-> NoPreview,
   prompt_tokens |-> 0, completion_tokens |-> 0, total_tokens |-> 0,
   cost_usd |-> 0, request_id |-> "", raw |-> <<>>]

\* self.calls[run_id] = record
Put(calls_, run_id, record) ==
  [r \in DOMAIN calls_ \cup {run_id} |-> IF r = run_id THEN record ELSE calls_[r]]

\* self.calls.pop(run_id, None): what is left
Popped(calls_, run_id) == [r \in DOMAIN calls_ \ {run_id} |-> calls_[r]]

\* call.update({...}) / call[key] = value
Update(call, upd) ==
  [k \in DOMAIN call \cup DOMAIN upd |-> IF k \in DOMAIN upd THEN upd[k] ELSE call[k]]

HandlerResult(calls_, finished_, raised) ==
  [calls |-> calls_, finished |-> finished_, raised |-> raised]

\* on_llm_error, lines 150-155
on_llm_error(calls_, finished_, error, run_id, t) ==
  IF run_id \notin DOMAIN calls_ THEN HandlerResult(calls_, finished_, "none")
  ELSE HandlerResult(
         Popped(calls_, run_id),
         Append(finished_,
                Update(calls_[run_id],
                       [end_time |-> t, latency_ms |-> t - calls_[run_id].start_time,
                        error |-> error])),
         "none")

\* model_eff = model or "unknown"
ModelEff(model) == IF TruthyName(model) THEN model ELSE Str(<<"unknown">>)

\* lines 251-262
Completed(call, x, model_eff, t1) ==
  Update(call,
         [model |-> model_eff, output_preview |-> x.output_preview,
          prompt_tokens |-> x.prompt_toks, completion_tokens |-> x.comp_toks,
          total_tokens |-> x.total_toks,
          cost_usd |-> estimate_cost_usd(model_eff.name, x.prompt_toks, x.comp_toks),
          request_id |-> x.request_id, raw |-> x.raw_meta,
          end_time |-> t1, latency_ms |-> t1 - call.start_time])

\* lines 249-263.  match_pricing runs model_name.startswith outside the try
\* block: a model that is no string raises AttributeError there, after the
\* pop and before the append.
Closed(calls_, finished_, call, x, t1) ==
  IF ModelEff(x.model).kind = "num" THEN HandlerResult(calls_, finished_, "AttributeError")
  ELSE HandlerResult(calls_, Append(finished_, Completed(call, x, ModelEff(x.model), t1)),
                     "none")

EndAppendsUnknownRun(calls_, finished_, response, run_id, t1, tik) ==
  IF run_id \notin DOMAIN calls_
    THEN HandlerResult(calls_,
           Append(finished_,
                  Completed(_start_common("llm", <<>>, run_id, NoParent, t1),
                            Extracted(response, [prompts |-> <<>>], tik),
                            Str(<<"unknown">>), t1)),
           "none")
  ELSE Closed(Popped(calls_, run_id), finished_, calls_[run_id],
              Extracted(response, calls_[run_id], tik), t1)

\* lines 159-263
_end_common(calls_, finished_, response, run_id, t1, tik) ==
  IF run_id \notin DOMAIN calls_ THEN HandlerResult(calls_, finished_, "none")
  ELSE Closed(Popped(calls_, run_id), finished_, calls_[run_id],
              Extracted(response, calls_[run_id], tik), t1)

(***************************************************************************)
(* Inputs of the tracer.                                                   *)
(***************************************************************************)
Short == <<"hola">>
Long == <<"lorem", "ipsum">>
PromptLists == {<<>>, <<Long, Short>>}
MessageLists == {<< <<>> >>, << <<Short, Long>>, <<>> >>}
Parents == {NoParent, "r0"}
Errors == {"boom"}

DatedMini == <<"gpt-4", "o", "-mini", "-2024">>
Gpt41 == <<"gpt-4", ".1">>

UsageValues == {EmptyUsage, Counts(0, 0, 0), Counts(0, 0, 9), Counts(10, 5, 0),
                Counts(7, 3, 12), NotADict}
NameValues == {Str(DatedMini), Str(Gpt41), NotAString}

\* The values a field of the response may take instead of the plain one.
Others(field) ==
  CASE field \in {"lo_token_usage", "lo_usage", "raw_usage", "rm_usage",
                  "gi_token_usage", "gi_usage"} -> UsageValues
    [] field = "rm_token_usage" -> UsageValues \cup {NullUsage}
    [] field \in {"lo_model", "lo_model_name", "rm_model", "rm_model_name"} -> NameValues
    [] field \in {"rm_id", "rm_request_id"} -> {"req-1"}
    [] field = "lo" -> {"none", "bad"}
    [] field = "gens" -> {"none", "empty", "inner_empty"}
    [] field = "message" -> {"none"}
    [] field = "content" -> {Short}

ResponseFields ==
  <<"lo", "lo_token_usage", "lo_usage", "lo_model", "lo_model_name", "raw_usage",
    "gens", "message", "content", "rm_model", "rm_model_name", "rm_id",
    "rm_request_id", "rm_token_usage", "rm_usage", "gi_token_usage", "gi_usage">>

\* The responses that differ from response in at most n of the fields from
\* the i-th on.
RECURSIVE Variants(_, _, _)
Variants(response, i, n) ==
  IF i > Len(ResponseFields) \/ n = 0 THEN {response}
  ELSE Variants(response, i + 1, n)
         \cup UNION {Variants([response EXCEPT ![ResponseFields[i]] = v], i + 1, n - 1) :
                       v \in Others(ResponseFields[i])}

ResponsesWith(n) == Variants(PlainResponse, 1, n)

Responses == ResponsesWith(MaxFields)

\* The responses the event histories are explored with.
CoreResponses ==
  {PlainResponse,
   [PlainResponse EXCEPT !.lo_token_usage = Counts(10, 5, 0), !.lo_model_name = Str(DatedMini)],
   [PlainResponse EXCEPT !.lo_model_name = NotAString]}

NoEvent == [name |-> "none", run_id |-> "", known |-> FALSE, raised |-> "none",
            response |-> PlainResponse]
Event(name, run_id, known, raised, response) ==
  [name |-> name, run_id |-> run_id, known |-> known, raised |-> raised,
   response |-> response]

(***************************************************************************)
(* State.  One invocation at a time is recorded: the operation last run,   *)
(* its inputs and what came out of it.                                     *)
(*   op       the operation last run                                       *)
(*   args     its inputs                                                   *)
(*   out      what a validate / constructor / resolve / inject call        *)
(*            returned or raised                                           *)
(*   report   what a lookup call returned (or the exception leaving it)    *)
(*   agent    the instance the invocation's constructor call bound         *)
(*   calls    the _execute calls made by the operation last run            *)
(*   injected the pool entries Context.inject looked at and the kwargs it  *)
(*            built                                                        *)
(*   nextId   the identities given out so far to constructed instances     *)
(*   inflight CostTracingHandler.calls: run_id -> provisional record       *)
(*   finished CostTracingHandler.finished                                  *)
(*   now      the clock read by the handler's callbacks                    *)
(*   event    the callback last run, its inputs and the exception, if      *)
(*            any, that left it                                            *)
(*   quote    the model name and token counts last priced, with the result *)
(*   tiktoken whether the tokenizer module could be imported              *)
(***************************************************************************)
VARIABLES op, args, out, report, agent, calls, injected, nextId,
          inflight, finished, now, event, quote, tiktoken

agentVars == <<op, args, out, report, agent, calls, injected, nextId>>
tracerVars == <<inflight, finished, now, event, quote, tiktoken>>
vars == <<op, args, out, report, agent, calls, injected, nextId,
          inflight, finished, now, event, quote, tiktoken>>

NoArgs ==
  [cls |-> NoClass, where |-> "", model |-> NoModel, payload |-> NonePayload,
   cfg |-> NonePayload, deps |-> NonePayload, tools |-> <<>>, pool |-> <<>>, errs |-> <<>>]
NoOut == Returned(NonePayload, 0)
NoReport == Propagated("unset")
NoInjected == [scan |-> <<>>, values |-> EmptyMap]

\* A caller starts an invocation with inputs of its own (op = "start"), or
\* goes on with the object the previous call returned.
Fresh == op = "start"
Prior == IF out.exc = "none" /\ out.value.kind = "inst" THEN {out.value} ELSE {}

PayloadChoices(model, where) == IF Fresh THEN PayloadsFor(model, where) ELSE Prior

\* deps = ctx.inject(Cls.deps_model()), then Cls(props, deps, tools)
DepsChoices(cls) ==
  IF Fresh THEN CtorPayloads(cls.deps)
  ELSE IF op = "inject" /\ args.model = cls.deps THEN Prior
  ELSE {}

Init ==
  /\ op = "start"
  /\ args = NoArgs
  /\ out = NoOut
  /\ report = NoReport
  /\ agent = NoAgent
  /\ calls = <<>>
  /\ injected = NoInjected
  /\ nextId = 0
  /\ inflight = EmptyMap
  /\ finished = <<>>
  /\ now = 0
  /\ event = NoEvent
  /\ quote = NoQuote
  /\ tiktoken \in BOOLEAN

\* Agent.lookup_config / Agent.lookup_deps
LookupStep(cls, where, payload, r) ==
  /\ nextId + r.made <= MaxObjects
  /\ op' = "lookup"
  /\ args' = [NoArgs EXCEPT !.cls = cls, !.where = where,
                            !.model = ModelOf(cls, where), !.payload = payload]
  /\ report' = r
  /\ out' = NoOut
  /\ nextId' = nextId + r.made
  /\ agent' = NoAgent
  /\ calls' = <<>>
  /\ injected' = NoInjected
  /\ UNCHANGED tracerVars

LookupConfig ==
  \E cls \in AgentClasses :
    \E payload \in PayloadChoices(cls.config, "config") :
      LookupStep(cls, "config", payload,
                 _lookup_with_model(cls.config, payload, "config", nextId))

LookupDeps ==
  \E cls \in AgentClasses :
    \E payload \in PayloadChoices(cls.deps, "deps") :
      LookupStep(cls, "deps", payload,
                 _lookup_with_model(cls.deps, payload, "deps", nextId))

\* Agent._validate_with_model called on its own
ValidateStep(name, model, payload, where, r) ==
  /\ nextId + r.made <= MaxObjects
  /\ op' = name
  /\ args' = [NoArgs EXCEPT !.where = where, !.model = model, !.payload = payload]
  /\ out' = r
  /\ report' = NoReport
  /\ nextId' = nextId + r.made
  /\ agent' = NoAgent
  /\ calls' = <<>>
  /\ injected' = NoInjected
  /\ UNCHANGED tracerVars

Validate ==
  \E cls \in AgentClasses, where \in {"config", "deps"} :
    \E payload \in PayloadChoices(ModelOf(cls, where), where) :
      ValidateStep("validate", ModelOf(cls, where), payload, where,
                   _validate_with_model(ModelOf(cls, where), payload, where, nextId))

\* validate applied to the object the previous validate or inject returned,
\* against the same schema
Revalidate ==
  /\ op \in {"validate", "revalidate", "inject"}
  /\ args.model # NoModel
  /\ out.exc = "none"
  /\ out.value.kind = "inst"
  /\ ValidateStep("revalidate", args.model, out.value, args.where,
                  _validate_with_model(args.model, out.value, args.where, nextId))

\* Agent._normalize_pydantic_errors called on a ValidationError's violations
Normalize ==
  /\ Fresh
  /\ \E where \in {"config", "deps"}, errs \in SeqsUpTo(RawErrors, MaxErrs) :
       /\ op' = "normalize"
       /\ args' = [NoArgs EXCEPT !.where = where, !.errs = errs]
       /\ out' = RaisedValueError(_normalize_pydantic_errors(where, errs))
       /\ report' = NoReport
       /\ agent' = NoAgent
       /\ calls' = <<>>
       /\ injected' = NoInjected
       /\ UNCHANGED nextId
       /\ UNCHANGED tracerVars

\* Agent(cfg, deps, tools) of lib/agent.py
ConstructStep(cls, cfg, deps, tools, r) ==
  /\ nextId + r.out.made <= MaxObjects
  /\ op' = "construct"
  /\ args' = [NoArgs EXCEPT !.cls = cls, !.cfg = cfg, !.deps = deps, !.tools = tools]
  /\ out' = r.out
  /\ agent' = r.agent
  /\ report' = NoReport
  /\ calls' = <<>>
  /\ injected' = NoInjected
  /\ nextId' = nextId + r.out.made
  /\ UNCHANGED tracerVars

Construct ==
  \E cls \in AgentClasses :
    \E cfg \in CtorPayloads(cls.config), deps \in DepsChoices(cls), tools \in ToolLists :
      ConstructStep(cls, cfg, deps, tools, AgentInit(cls, cfg, deps, tools, nextId))

\* agent.resolve(instruction) of lib/agent.py, on the constructed instance
ResolveStep(r) ==
  /\ op' = "resolve"
  /\ out' = r.out
  /\ calls' = r.calls
  /\ UNCHANGED <<args, report, agent, injected, nextId>>
  /\ UNCHANGED tracerVars

Resolve ==
  /\ agent.exists
  /\ ResolveStep(resolve(agent))

\* agent.resolve(instruction, cfg, deps) of agent.py
LegacyResolveStep(cls, cfg, deps, r) ==
  /\ nextId + r.out.made <= MaxObjects
  /\ op' = "legacy_resolve"
  /\ args' = [NoArgs EXCEPT !.cls = cls, !.cfg = cfg, !.deps = deps]
  /\ out' = r.out
  /\ calls' = r.calls
  /\ report' = NoReport
  /\ agent' = NoAgent
  /\ injected' = NoInjected
  /\ nextId' = nextId + r.out.made
  /\ UNCHANGED tracerVars

LegacyResolve ==
  \E cls \in AgentClasses :
    \E cfg \in CtorPayloads(cls.config), deps \in DepsChoices(cls) :
      LegacyResolveStep(cls, cfg, deps, legacy_resolve(cls, cfg, deps, nextId))

\* Context.inject(deps_model) over a utility pool
InjectStep(model, pool, r) ==
  /\ nextId + r.made <= MaxObjects
  /\ op' = "inject"
  /\ args' = [NoArgs EXCEPT !.where = "deps", !.model = model, !.pool = pool]
  /\ out' = r
  /\ injected' = [scan |-> InjectScan(model, pool),
                  values |-> IF model = NoModel THEN EmptyMap
                             ELSE InjectValues(model, pool)]
  /\ report' = NoReport
  /\ agent' = NoAgent
  /\ calls' = <<>>
  /\ nextId' = nextId + r.made
  /\ UNCHANGED tracerVars

Inject ==
  /\ Fresh
  /\ \E model \in {NoModel, "TooledDeps", "ToolDeps", "MixedDeps"}, pool \in Pools :
       InjectStep(model, pool, inject(model, pool, nextId))

\* The invocation is over (Completed, Rejected or Failed): the caller drops
\* what it holds and starts another.  Constructed objects keep their ids.
NewInvocation ==
  /\ ~Fresh
  /\ op' = "start"
  /\ args' = NoArgs
  /\ out' = NoOut
  /\ report' = NoReport
  /\ agent' = NoAgent
  /\ calls' = <<>>
  /\ injected' = NoInjected
  /\ UNCHANGED nextId
  /\ UNCHANGED tracerVars

Next ==
  \/ LookupConfig
  \/ LookupDeps
  \/ Validate
  \/ Revalidate
  \/ Normalize
  \/ Construct
  \/ Resolve
  \/ LegacyResolve
  \/ Inject
  \/ NewInvocation

Spec == Init /\ [][Next]_vars

(***************************************************************************)
(* The cost tracer's callbacks.                                            *)
(***************************************************************************)
StartStep(name, kind, prompts, run_id, parent_run_id) ==
  /\ now < MaxEvents
  /\ inflight' = Put(inflight, run_id, _start_common(kind, prompts, run_id, parent_run_id, now))
  /\ event' = Event(name, run_id, run_id \in DOMAIN inflight, "none", PlainResponse)
  /\ now' = now + 1
  /\ UNCHANGED <<finished, quote, tiktoken>>
  /\ UNCHANGED agentVars

\* on_llm_start(serialized, prompts, run_id, parent_run_id)
OnLlmStart ==
  \E run_id \in RunIds :
    \E parent_run_id \in Parents, prompts \in PromptLists :
      StartStep("on_llm_start", "llm", prompts, run_id, parent_run_id)

\* on_chat_model_start(serialized, messages, run_id, parent_run_id)
OnChatModelStart ==
  \E run_id \in RunIds :
    \E parent_run_id \in Parents, messages \in MessageLists :
      StartStep("on_chat_model_start", "chat", PromptsOf(messages), run_id, parent_run_id)

HandledStep(name, run_id, response, r) ==
  /\ now < MaxEvents
  /\ inflight' = r.calls
  /\ finished' = r.finished
  /\ event' = Event(name, run_id, run_id \in DOMAIN inflight, r.raised, response)
  /\ now' = now + 1
  /\ UNCHANGED <<quote, tiktoken>>
  /\ UNCHANGED agentVars

\* on_llm_end(response, run_id)
OnLlmEnd ==
  \E run_id \in RunIds :
    \E response \in CoreResponses :
      HandledStep("on_llm_end", run_id, response,
                  _end_common(inflight, finished, response, run_id, now, tiktoken))

\* on_llm_error(error, run_id)
OnLlmError ==
  \E run_id \in RunIds :
    \E error \in Errors :
      HandledStep("on_llm_error", run_id, PlainResponse,
                  on_llm_error(inflight, finished, error, run_id, now))

TracerNext ==
  \/ OnLlmStart
  \/ OnChatModelStart
  \/ OnLlmEnd
  \/ OnLlmError

TracerSpec == Init /\ [][TracerNext]_vars

\* The first callback of a tracer: a start of run "r1".
FirstStart ==
  /\ now = 0
  /\ \/ \E parent_run_id \in Parents, prompts \in PromptLists :
          StartStep("on_llm_start", "llm", prompts, "r1", parent_run_id)
     \/ \E parent_run_id \in Parents, messages \in MessageLists :
          StartStep("on_chat_model_start", "chat", PromptsOf(messages), "r1",
                    parent_run_id)

\* The end of the run in flight, with a response of any of the shapes of
\* Responses.
OnLlmEndOfAnyShape ==
  /\ "r1" \in DOMAIN inflight
  /\ \E response \in Responses :
       HandledStep("on_llm_end", "r1", response,
                   _end_common(inflight, finished, response, "r1", now, tiktoken))

EndNext ==
  \/ FirstStart
  \/ OnLlmEndOfAnyShape

EndSpec == Init /\ [][EndNext]_vars

\* estimate_cost_usd(model, prompt_toks, completion_toks) on its own
Estimate ==
  /\ ~quote.asked
  /\ \E model \in Names, prompt_toks \in TokenCounts, completion_toks \in TokenCounts :
       /\ quote' = [model |-> model, prompt_toks |-> prompt_toks,
                    completion_toks |-> completion_toks,
                    price |-> match_pricing(model),
                    cost |-> estimate_cost_usd(model, prompt_toks, completion_toks),
                    asked |-> TRUE]
       /\ UNCHANGED <<inflight, finished, now, event, tiktoken>>
       /\ UNCHANGED agentVars

PricingSpec == Init /\ [][Estimate]_vars

(***************************************************************************)
(* Properties.                                                             *)
(***************************************************************************)
ErrorsSeen == IF op = "lookup" THEN report.errors ELSE out.errors
Raised == IF op = "lookup" THEN report.exc ELSE out.exc

\* The exception of the first validation of (config, deps) that fails for
\* the invocation's payloads, "none" if both pass.
FirstFailure(c, d) == IF c.exc # "none" THEN c.exc ELSE d.exc
RejectedBy(a) ==
  FirstFailure(_validate_with_model(a.cls.config, a.cfg, "config", 0),
               _validate_with_model(a.cls.deps, a.deps, "deps", 0))

C2_ExecuteGetsValidatedInputs ==
  /\ op = "resolve"
       => /\ Len(calls) = 1
          /\ calls[1].ran
          /\ calls[1].cfg = agent.cfg
          /\ calls[1].deps = agent.deps
          /\ calls[1].tools = agent.tools
  /\ (op = "legacy_resolve" /\ RejectedBy(args) = "none")
       => /\ Len(calls) = 1
          /\ calls[1].ran

NonEmpty(p) ==
  ~(\/ p.kind = "none"
    \/ p.kind = "dict" /\ p.len = 0
    \/ p.kind = "list" /\ p.len = 0)

OnlyNotSupported(errs, where) ==
  /\ Len(errs) = 1
  /\ errs[1].code = where \o ".not_supported"

\* C3: without a declared schema, a non-empty payload gives ok:false with the
\* single error <where>.not_supported from lookup, and validate raises the
\* structured failure with that same single error; None, {} and [] give
\* ok:true with a null value and no errors.
C3_NoSchema ==
  /\ (op = "lookup" /\ args.model = NoModel /\ NonEmpty(args.payload))
       => /\ report.exc = "none"
          /\ ~report.ok
          /\ OnlyNotSupported(report.errors, args.where)
  /\ (op = "lookup" /\ args.model = NoModel /\ ~NonEmpty(args.payload))
       => /\ report.exc = "none"
          /\ report.ok
          /\ report.value = NonePayload
          /\ report.errors = <<>>
  /\ (op = "validate" /\ args.model = NoModel /\ NonEmpty(args.payload))
       => /\ out.exc = "ValueError"
          /\ OnlyNotSupported(out.errors, args.where)
          /\ out.errors = _lookup_with_model(NoModel, args.payload, args.where, 0).errors
  /\ (op = "validate" /\ args.model = NoModel /\ ~NonEmpty(args.payload))
       => out = Returned(NonePayload, 0)

C3_Witness ==
  /\ op = "lookup"
  /\ args.model = NoModel
  /\ args.where = "config"
  /\ args.payload.kind = "dict"
  /\ args.payload.len > 0
  /\ ~report.ok

ItemAt(errs, code, pointer) ==
  \E k \in DOMAIN errs : errs[k].code = code /\ errs[k].source.pointer = pointer

\* The violation is an absence of a required value: its kind is "missing" or
\* ends in ".missing", or its message starts with "field required" (in any
\* letter case).
AbsenceKind(e) ==
  \/ e.type = <<"missing">>
  \/ Len(e.type) > 1 /\ e.type[Len(e.type)] = "missing"
  \/ /\ Len(e.msg) > 1
     /\ e.msg[1] \in {"field", "Field", "FIELD"}
     /\ e.msg[2] \in {"required", "Required"}

RequiredFieldReported(f, p, errs, where) ==
  /\ f.name \notin DOMAIN p.vals
       => ItemAt(errs, where \o ".missing", "/" \o f.name)
  /\ (f.name \in DOMAIN p.vals /\ ~CheckValue(f, p.vals[f.name]).ok)
       => /\ ItemAt(errs, where \o ".validation", "/" \o f.name)
          /\ ~ItemAt(errs, where \o ".missing", "/" \o f.name)

C5_ValidateIdempotent ==
  op = "revalidate"
    => /\ out.exc = "none"
       /\ out.value = args.payload
       /\ out.made = 0

C5_Witness ==
  /\ op = "revalidate"
  /\ args.model = "TooledConfig"
  /\ out.value.kind = "inst"
  /\ out.value.id = 1
  /\ out.value.vals["temperature"] = FloatV(10)

FullShape(item) ==
  /\ {"code", "title", "detail", "source", "meta"} \subseteq DOMAIN item
  /\ "pointer" \in DOMAIN item.source
  /\ {"type", "ctx"} \subseteq DOMAIN item.meta

\* C6: every error item of every ok:false report and of every structured
\* failure carries code, title, detail, source.pointer and meta (type, ctx).
C6_EveryItemFullShape ==
  \A k \in DOMAIN ErrorsSeen : FullShape(ErrorsSeen[k])

Misshaped(model, p) ==
  /\ p.kind \notin {"none", "dict"}
  /\ ~(p.kind = "inst" /\ p.model = model)

\* C7: with a declared schema, a payload that is neither an instance of it,
\* nor a map, nor None makes validate raise TypeError, and lookup lets that
\* TypeError through instead of returning a report.
C7_TypeMismatchPropagates ==
  (op \in {"lookup", "validate"} /\ args.model # NoModel /\ Misshaped(args.model, args.payload))
    => /\ Raised = "TypeError"
       /\ ErrorsSeen = <<>>
       /\ op = "lookup" => ~report.ok

C7_Witness ==
  /\ op = "lookup"
  /\ args.model = "StrictConfig"
  /\ args.payload.kind = "inst"
  /\ args.payload.model = "TooledConfig"
  /\ report.exc = "TypeError"

ToolName(o) == ObjTable[o].name
IsTool(o) == ObjTable[o].cls = "BaseTool"

\* The tools held by the fields of the bound dependency object.
DepTools(deps) ==
  IF deps.kind # "inst" THEN {}
  ELSE {deps.vals[k].n : k \in {j \in DOMAIN deps.vals :
                                  deps.vals[j].t = "obj" /\ IsTool(deps.vals[j].n)}}

ExplicitTools(tools) == {tools[i] : i \in {j \in DOMAIN tools : IsTool(tools[j])}}

Kept(tools, name) == {i \in DOMAIN tools : ToolName(tools[i]) = name}

\* C8: the merged tool set of a constructed agent holds exactly one tool per
\* distinct name among the dependency-supplied and the explicitly passed
\* tools, and for a name present in both it holds a dependency-supplied
\* instance.
C8_OneToolPerName ==
  (op = "construct" /\ agent.exists)
    => /\ \A i \in DOMAIN agent.tools :
            agent.tools[i] \in DepTools(agent.deps) \cup ExplicitTools(args.tools)
       /\ \A t \in DepTools(agent.deps) \cup ExplicitTools(args.tools) :
            Cardinality(Kept(agent.tools, ToolName(t))) = 1
       /\ \A d \in DepTools(agent.deps) :
            \A i \in Kept(agent.tools, ToolName(d)) :
              agent.tools[i] \in DepTools(agent.deps)

C8_Witness ==
  /\ op = "construct"
  /\ agent.exists
  /\ DepTools(agent.deps) = {5}
  /\ args.tools = <<6, 7>>
  /\ agent.tools = <<5, 7>>

\* The expected type of a slot as the rule reads it: Optional[T] is T.
SlotType(ann) ==
  IF ann.origin = "Union" /\ Len(NonNoneArgs(ann)) = 1 THEN Ty(NonNoneArgs(ann)[1]) ELSE ann

InstanceOfSlot(o, T) ==
  IF T.origin = "Union"
    THEN \E i \in DOMAIN T.args : T.args[i] \in Mro(ObjTable[o].cls)
  ELSE T.name = "Any" \/ T.name \in Mro(ObjTable[o].cls)

\* An entry matches a slot when it is an instance of the slot's type, or,
\* failing that, when the slot expects a RAGExpander and the entry has a
\* callable expand.
MatchesSlot(o, ann) ==
  \/ InstanceOfSlot(o, SlotType(ann))
  \/ /\ SlotType(ann).origin = ""
     /\ SlotType(ann).name = "RAGExpander"
     /\ ObjTable[o].expand = "callable"

Hits(pool, ann) == {i \in DOMAIN pool : MatchesSlot(pool[i], ann)}
First(S) == CHOOSE i \in S : \A j \in S : i <= j

SlotFilled(f, pool, values) ==
  IF Hits(pool, f.ann) = {} THEN f.name \notin DOMAIN values
  ELSE /\ f.name \in DOMAIN values
       /\ values[f.name] = ObjV(pool[First(Hits(pool, f.ann))])

\* C9: inject gives each slot of the dependency schema the first pool entry,
\* in pool order, that matches the slot's type (MatchesSlot), leaves the slot
\* unset when none matches, and for a null schema returns null without
\* looking at the pool.
C9_FirstMatchInjected ==
  op = "inject"
    => IF args.model = NoModel
         THEN /\ out = Returned(NonePayload, 0)
              /\ injected.scan = <<>>
              /\ injected.values = EmptyMap
       ELSE /\ DOMAIN injected.values \subseteq FieldNames(args.model)
            /\ \A i \in DOMAIN model_fields(args.model) :
                 SlotFilled(model_fields(args.model)[i], args.pool, injected.values)
            /\ out.exc = "none" =>
                 \A i \in DOMAIN model_fields(args.model) :
                   out.value.vals[model_fields(args.model)[i].name]
                     = (IF model_fields(args.model)[i].name \in DOMAIN injected.values
                          THEN injected.values[model_fields(args.model)[i].name]
                        ELSE model_fields(args.model)[i].default)

C9_Witness ==
  /\ op = "inject"
  /\ args.model = "TooledDeps"
  /\ args.pool = <<2, 1>>
  /\ injected.values = [n \in {"rag"} |-> ObjV(2)]

UnmatchedRequired(model, values) ==
  {i \in DOMAIN model_fields(model) :
     model_fields(model)[i].required /\ model_fields(model)[i].name \notin DOMAIN values}

\* C10: when inject finds no match for a required slot, it fails through the
\* structured failure whose errors hold a deps.missing item pointing at that
\* slot.
C10_InjectMissingIsStructured ==
  (op = "inject" /\ args.model # NoModel)
    => \A i \in UnmatchedRequired(args.model, injected.values) :
         /\ out.exc = "ValueError"
         /\ ItemAt(out.errors, "deps.missing", "/" \o model_fields(args.model)[i].name)

(***************************************************************************)
(* The cost tracer.                                                        *)
(***************************************************************************)
RunsOf(records) == {records[i].run_id : i \in DOMAIN records}
TimesFinished(run_id) == Cardinality({i \in DOMAIN finished : finished[i].run_id = run_id})
LastFinished == finished[Len(finished)]

\* C11: in every reachable state of the tracer each run_id occurs at most
\* once in finished, and every finished record belongs to a run that was
\* started before it was ended.  Fails: a run_id that is started again after
\* its end is finished a second time.
C11_FinishedOncePerRun ==
  /\ \A run_id \in RunIds : TimesFinished(run_id) <= 1
  /\ \A i \in DOMAIN finished :
       /\ finished[i].kind \in {"llm", "chat"}
       /\ finished[i].start_time < finished[i].end_time

\* C12: an on-end or on-error event whose run_id is not in flight is a
\* no-op: the in-flight map and the finished list stay as they were and no
\* error reaches the caller.
C12_UnknownRunIsNoOp ==
  [][(/\ event'.name \in {"on_llm_end", "on_llm_error"}
      /\ ~event'.known)
       => (/\ inflight' = inflight
           /\ finished' = finished
           /\ event'.raised = "none")]_vars

\* An end event for a run that has already finished, while another run is
\* in flight.
C12_Witness ==
  /\ event.name = "on_llm_end"
  /\ ~event.known
  /\ event.run_id \in RunsOf(finished)
  /\ inflight # EmptyMap

\* The places of a response a usage block and a model name may come from.
UsageFields ==
  {"lo_token_usage", "lo_usage", "rm_token_usage", "rm_usage", "gi_token_usage",
   "gi_usage", "raw_usage"}
ModelFields == {"lo_model", "lo_model_name", "rm_model", "rm_model_name"}
WholeResponse(response) == response.lo = "dict" /\ HasMsg(response)
CountedIn(response) ==
  {f \in UsageFields : response[f].kind = "counts" /\ response[f].p + response[f].c > 0}
NamedIn(response) == {f \in ModelFields : response[f].kind = "str"}
\* The run in flight has just been ended by an on_llm_end event.
JustEnded == event.name = "on_llm_end" /\ event.known

\* C13: a run that is started and then ended with a response that reports
\* usage {p, c} with p + c > 0 and a model name m (under llm_output 'model'
\* or 'model_name', or the first message's response_metadata 'model' or
\* 'model_name') leaves a finished record with prompt tokens p, completion
\* tokens c, total p + c when the usage has no total of its own, model m
\* and the cost of p and c at m's prices.  Fails: a name under a 'model'
\* key is dropped.
C13_UsageAndModelRecorded ==
  \A u \in UsageFields, m \in ModelFields :
    (/\ JustEnded
     /\ WholeResponse(event.response)
     /\ CountedIn(event.response) = {u}
     /\ NamedIn(event.response) = {m})
      => /\ finished # <<>>
         /\ LastFinished.prompt_tokens = event.response[u].p
         /\ LastFinished.completion_tokens = event.response[u].c
         /\ LastFinished.total_tokens = TotalOf(event.response[u])
         /\ LastFinished.model = event.response[m]
         /\ LastFinished.cost_usd =
              estimate_cost_usd(event.response[m].name, event.response[u].p,
                                event.response[u].c)

Keys == {PRICING_PER_1K[i].key : i \in DOMAIN PRICING_PER_1K}
EntryFor(key) ==
  PRICING_PER_1K[CHOOSE i \in DOMAIN PRICING_PER_1K : PRICING_PER_1K[i].key = key]
PrefixKeys(model_name) == {k \in Keys : StartsWith(model_name, k)}
Longest(keys) == CHOOSE k \in keys : \A j \in keys : Len(j) <= Len(k)

\* C14: the price of a model name is the table entry of that exact name if
\* there is one, otherwise the entry of the longest table key that is a
\* prefix of the name, otherwise (0, 0), which makes the cost zero; the
\* cost is prompt tokens at the input price plus completion tokens at the
\* output price.
C14_PriceByLongestPrefix ==
  quote.asked =>
    /\ quote.model \in Keys => quote.price = PriceOf(EntryFor(quote.model))
    /\ (quote.model \notin Keys /\ PrefixKeys(quote.model) # {})
         => quote.price = PriceOf(EntryFor(Longest(PrefixKeys(quote.model))))
    /\ PrefixKeys(quote.model) = {} => (quote.price = Price(0, 0) /\ quote.cost = 0)
    /\ quote.cost = quote.prompt_toks * quote.price.input
                      + quote.completion_toks * quote.price.output

\* A dated gpt-4o-mini name, which both "gpt-4o-mini" and "gpt-4o" are
\* prefixes of, priced as gpt-4o-mini.
C14_Witness ==
  /\ quote.asked
  /\ quote.model = DatedMini
  /\ quote.price = Price(15, 60)
  /\ quote.prompt_toks = 10 /\ quote.completion_toks = 5
  /\ quote.cost = 450

KindOf(name) == IF name = "on_llm_start" THEN "llm" ELSE "chat"
\* The last event was a start for a run_id that was already in flight.
Restarted ==
  /\ event.name \in {"on_llm_start", "on_chat_model_start"}
  /\ event.known

\* C15: a start event for a run_id that is already in flight replaces the
\* in-flight record, and the end event that follows appends exactly one
\* record, built from the later start (its kind and start time); nothing
\* is reported for the overwritten start.  Fails with C18: an end event
\* that raises appends no record at all.
C15_RestartThenEndReportsLaterStart ==
  [][(/\ Restarted
      /\ event'.name = "on_llm_end"
      /\ event'.run_id = event.run_id)
       => (/\ Len(finished') = Len(finished) + 1
           /\ SubSeq(finished', 1, Len(finished)) = finished
           /\ finished'[Len(finished')].run_id = event.run_id
           /\ finished'[Len(finished')].kind = KindOf(event.name)
           /\ finished'[Len(finished')].start_time = now - 1
           /\ event.run_id \notin DOMAIN inflight')]_vars

\* C18: every on-end event for a run_id in flight, whatever the shape of
\* the response, removes the in-flight entry, appends exactly one record to
\* finished and lets no error reach the caller.  Fails: the cost is
\* computed outside the try block, and a model name that is no string
\* raises there.
C18_EndAlwaysReports ==
  JustEnded =>
    /\ event.run_id \notin DOMAIN inflight
    /\ Len(finished) = 1
    /\ LastFinished.run_id = event.run_id
    /\ event.raised = "none"

\* The usage sources in their order of priority: llm_output token_usage /
\* usage, the message's response_metadata, generation_info, the raw
\* provider response.
Priority ==
  <<"lo_token_usage", "lo_usage", "rm_token_usage", "rm_usage", "gi_token_usage",
    "gi_usage", "raw_usage">>
WithCounts(response) == {i \in DOMAIN Priority : response[Priority[i]].kind = "counts"}
FirstSource(response) ==
  response[Priority[CHOOSE i \in WithCounts(response) :
                      \A j \in WithCounts(response) : i <= j]]

\* C17: the token counts of the record come from the first source, in the
\* order of priority, that reports counts; a lower source never overrides
\* a higher one, and the tokenizer estimate takes their place only when no
\* source reports any count.  Fails: a block whose prompt and completion
\* counts add up to zero is replaced by the estimate, its total included.
C17_FirstSourceWins ==
  (/\ JustEnded
   /\ event.raised = "none"
   /\ WholeResponse(event.response)
   /\ WithCounts(event.response) # {})
    => /\ LastFinished.prompt_tokens = FirstSource(event.response).p
       /\ LastFinished.completion_tokens = FirstSource(event.response).c
       /\ LastFinished.total_tokens = TotalOf(FirstSource(event.response))

\* The tools of a sequence, each name at its first occurrence only.
RECURSIVE FirstSeen(_, _)
FirstSeen(tools, seen) ==
  IF tools = <<>> THEN <<>>
  ELSE IF ToolName(Head(tools)) \in seen THEN FirstSeen(Tail(tools), seen)
  ELSE <<Head(tools)>> \o FirstSeen(Tail(tools), seen \cup {ToolName(Head(tools))})

\* C16: the merged tools of a constructed agent are the dependency tools,
\* in the order of the dependency fields, followed by the explicit tools,
\* first seen wins per name: also when two dependency fields hold tools of
\* one name and when the explicit list repeats a name.  Fails: of two
\* dependency tools of one name the later one is kept.
C16_FirstSeenWins ==
  (op = "construct" /\ agent.exists)
    => agent.tools = FirstSeen(_extract_tools_from_deps(agent.deps) \o ext_tools(args.tools),
                               {})

\* What validate does with the inputs of the lookup just made.
ValidatedAlike ==
  _validate_with_model(args.model, args.payload, args.where, nextId - report.made)
\* null, a map, the empty list or an instance
LookupShaped(payload) ==
  \/ payload.kind \in {"none", "dict", "inst"}
  \/ payload = ListPayload(0)

\* C19: lookup and validate agree.  For a payload that is null, a map, the
\* empty list or an instance, and that validate does not reject with a type
\* mismatch, lookup reports ok: true exactly when validate returns, and
\* when validate fails the errors of the report are validate's errors, item
\* for item.
C19_LookupAgreesWithValidate ==
  (/\ op = "lookup"
   /\ LookupShaped(args.payload)
   /\ ValidatedAlike.exc # "TypeError")
    => /\ report.exc = "none"
       /\ report.ok <=> ValidatedAlike.exc = "none"
       /\ report.errors = ValidatedAlike.errors

\* A lookup of a map that the schema rejects.
C19_Witness ==
  /\ op = "lookup"
  /\ args.model # NoModel
  /\ args.payload.kind = "dict"
  /\ ValidatedAlike.exc = "ValueError"
  /\ ~report.ok
  /\ report.errors # <<>>

====
